---------------------------- MODULE Spec2Model ----------------------------
(***************************************************************************)
(* A model of mdexec: literate execution over Markdown documents.          *)
(*                                                                         *)
(* Text is a sequence of lexemes.  A lexeme is a word ("t", "exec", "id"), *)
(* a punctuation mark ("=", "'"), a run of blanks (" "), a delimiter       *)
(* ("~~~", "<!--", "-->", "id:", "/id:") or the line break NL.  Every      *)
(* string operation of the program (split, splitlines, join, strip, the    *)
(* regular expressions, shlex.split) is modelled by what it does to such a *)
(* sequence.                                                               *)
(***************************************************************************)
EXTENDS Integers, Sequences, FiniteSets, TLC

VARIABLES
    pc,      \* which operation has run: the position of the caller
    info,    \* the info string handed to parse_info_string
    parsed,  \* what parse_info_string returned
    text,    \* the Markdown document
    args,    \* the arguments of the operation that has run
    res,     \* what the operation returned or raised
    log,     \* the lines printed to the console, oldest first
    blocks,  \* run_mdexec: the block list
    idx,     \* run_mdexec: the position in the block list of the loop
    result,  \* run_mdexec: the outcome of the last execution
    events   \* run_mdexec: what the run has done so far, oldest first

vars == <<pc, info, parsed, text, args, res, log, blocks, idx, result, events>>
runvars == <<blocks, idx, result, events>>

NL == "\n"
None == <<"None">>

Min(a, b) == IF a < b THEN a ELSE b

SeqsUpTo(S, n) == UNION {[1..m -> S] : m \in 0..n}

(***************************************************************************)
(* Python built-ins on strings and lists.                                  *)
(***************************************************************************)

\* seq[a:b] for 0 <= a, 0 <= b
Slice(seq, a, b) == SubSeq(seq, a + 1, Min(b, Len(seq)))

\* seq[a:]
SliceFrom(seq, a) == SubSeq(seq, a + 1, Len(seq))

RECURSIVE SplitAcc(_, _, _)
SplitAcc(s, i, cur) ==
    IF i > Len(s) THEN <<cur>>
    ELSE IF s[i] = NL THEN <<cur>> \o SplitAcc(s, i + 1, <<>>)
    ELSE SplitAcc(s, i + 1, Append(cur, s[i]))

\* s.split('\n')
Split(s) == SplitAcc(s, 1, <<>>)

\* s.splitlines(): no last empty line after a final line break
splitlines(s) ==
    LET p == Split(s)
    IN  IF p[Len(p)] = <<>> THEN SubSeq(p, 1, Len(p) - 1) ELSE p

RECURSIVE Join(_)
\* '\n'.join(lines)
Join(lines) ==
    IF lines = <<>> THEN <<>>
    ELSE IF Len(lines) = 1 THEN lines[1]
    ELSE lines[1] \o <<NL>> \o Join(Tail(lines))

IsBlank(c) == c = " " \/ c = NL

RECURSIVE SplitWsAcc(_, _, _, _)
SplitWsAcc(s, i, cur, acc) ==
    IF i > Len(s) THEN (IF cur = <<>> THEN acc ELSE Append(acc, cur))
    ELSE IF IsBlank(s[i])
         THEN SplitWsAcc(s, i + 1, <<>>, IF cur = <<>> THEN acc ELSE Append(acc, cur))
         ELSE SplitWsAcc(s, i + 1, Append(cur, s[i]), acc)

\* s.split(): pieces between runs of blanks, never an empty piece
SplitWs(s) == SplitWsAcc(s, 1, <<>>, <<>>)

Quotes == {"'", "\""}

RECURSIVE LStrip(_, _)
LStrip(s, chars) ==
    IF s # <<>> /\ s[1] \in chars THEN LStrip(Tail(s), chars) ELSE s

RECURSIVE RStrip(_, _)
RStrip(s, chars) ==
    IF s # <<>> /\ s[Len(s)] \in chars
    THEN RStrip(SubSeq(s, 1, Len(s) - 1), chars) ELSE s

\* s.strip(chars)
Strip(s, chars) == RStrip(LStrip(s, chars), chars)

RECURSIVE ShlexAcc(_, _, _, _, _, _)
ShlexAcc(s, i, st, tok, quoted, acc) ==
    IF i > Len(s) THEN
        IF st \in Quotes THEN [ok |-> FALSE, parts |-> <<>>]
        ELSE IF st = "a" /\ (tok # <<>> \/ quoted)
             THEN [ok |-> TRUE, parts |-> Append(acc, tok)]
             ELSE [ok |-> TRUE, parts |-> acc]
    ELSE
        LET c == s[i] IN
        IF st = "ws" THEN
            IF IsBlank(c) THEN ShlexAcc(s, i + 1, "ws", <<>>, FALSE, acc)
            ELSE IF c \in Quotes THEN ShlexAcc(s, i + 1, c, <<>>, TRUE, acc)
            ELSE ShlexAcc(s, i + 1, "a", <<c>>, FALSE, acc)
        ELSE IF st = "a" THEN
            IF IsBlank(c)
            THEN ShlexAcc(s, i + 1, "ws", <<>>, FALSE,
                          IF tok # <<>> \/ quoted THEN Append(acc, tok) ELSE acc)
            ELSE IF c \in Quotes THEN ShlexAcc(s, i + 1, c, tok, TRUE, acc)
            ELSE ShlexAcc(s, i + 1, "a", Append(tok, c), quoted, acc)
        ELSE
            IF c = st THEN ShlexAcc(s, i + 1, "a", tok, TRUE, acc)
            ELSE ShlexAcc(s, i + 1, st, Append(tok, c), TRUE, acc)

\* shlex.split(s): ok = FALSE is the ValueError of an unclosed quotation
ShlexSplit(s) == ShlexAcc(s, 1, "ws", <<>>, FALSE, <<>>)

(***************************************************************************)
(* parse_info_string                                                       *)
(***************************************************************************)

EmptyDict == <<>>

\* a dict whose first write of a key wins
DictSetFirstWins(d, key, value) ==
    IF \E j \in 1..Len(d) : d[j][1] = key THEN d ELSE Append(d, <<key, value>>)

\* d[key] = value on a dict kept as a sequence of <<key, value>> in insertion order
DictSet(d, key, value) ==
    IF \E j \in 1..Len(d) : d[j][1] = key
    THEN [j \in 1..Len(d) |-> IF d[j][1] = key THEN <<key, value>> ELSE d[j]]
    ELSE Append(d, <<key, value>>)

DictKeys(d) == {d[j][1] : j \in 1..Len(d)}

\* d.get(key, None)
DictGet(d, key) ==
    IF key \in DictKeys(d)
    THEN (CHOOSE p \in {d[j] : j \in 1..Len(d)} : p[1] = key)[2]
    ELSE None

\* the index of the first "=" of a token, 0 when it has none
FirstEq(part) ==
    IF \E j \in 1..Len(part) : part[j] = "="
    THEN CHOOSE j \in 1..Len(part) :
            part[j] = "=" /\ \A q \in 1..(j - 1) : part[q] # "="
    ELSE 0

\* key, value = part.split('=', 1)
SplitKeyValue(part) ==
    LET p == FirstEq(part)
    IN  <<SubSeq(part, 1, p - 1), SubSeq(part, p + 1, Len(part))>>

\* the tokens of the info string: shlex.split, info.split() when it raises
InfoParts(s) ==
    LET sh == ShlexSplit(s) IN IF sh.ok THEN sh.parts ELSE SplitWs(s)

\* one turn of the loop over parts[1:]
ProcessPart(st, part) ==
    IF part = <<"exec">> THEN [st EXCEPT !.exec = TRUE]
    ELSE IF FirstEq(part) # 0
         THEN LET kv == SplitKeyValue(part)
              IN  [st EXCEPT !.vars = DictSet(@, kv[1], Strip(kv[2], Quotes))]
         ELSE [st EXCEPT !.vars = DictSet(@, part, <<>>)]

RECURSIVE ProcessParts(_, _, _)
ProcessParts(parts, i, st) ==
    IF i > Len(parts) THEN st
    ELSE ProcessParts(parts, i + 1, ProcessPart(st, parts[i]))

parse_info_string(s) ==
    LET empty == [raised |-> FALSE, lang |-> <<>>, exec |-> FALSE, vars |-> EmptyDict]
        parts == InfoParts(s)
    IN  IF s = <<>> THEN empty
        ELSE IF parts = <<>> THEN empty
        ELSE ProcessParts(parts, 2, [empty EXCEPT !.lang = parts[1]])

(***************************************************************************)
(* The tokenizer.  MarkdownIt('commonmark').parse is a library; of its     *)
(* block tokens the program reads the fences and the HTML blocks, with     *)
(* map = [first line, line after the last], lines counted from 0.  A fence *)
(* runs to the next bare closing fence, or to the end of the document; a   *)
(* comment that opens and closes on one line is an HTML block of one line. *)
(***************************************************************************)

IsFenceOpen(line) == line # <<>> /\ line[1] = "~~~"
IsFenceClose(line) == line = <<"~~~">>
IsHtml(line) == line # <<>> /\ line[1] = "<!--"

\* the line (counted from 1) of the closing fence of the fence opened at line i, 0 when there is none
FenceCloser(lines, i) ==
    IF \E j \in (i + 1)..Len(lines) : IsFenceClose(lines[j])
    THEN CHOOSE j \in (i + 1)..Len(lines) :
            IsFenceClose(lines[j]) /\ \A q \in (i + 1)..(j - 1) : ~IsFenceClose(lines[q])
    ELSE 0

RECURSIVE TokenizeFrom(_, _)
TokenizeFrom(lines, i) ==
    IF i > Len(lines) THEN <<>>
    ELSE IF IsFenceOpen(lines[i]) THEN
        LET c == FenceCloser(lines, i)
            e == IF c = 0 THEN Len(lines) ELSE c
        IN  <<[type |-> "fence", map |-> <<i - 1, e>>,
               info |-> Strip(Tail(lines[i]), {" "}),
               content |-> IF e - (IF c = 0 THEN 0 ELSE 1) > i
                           THEN Join(SubSeq(lines, i + 1, e - (IF c = 0 THEN 0 ELSE 1))) \o <<NL>>
                           ELSE <<>>]>>
            \o TokenizeFrom(lines, e + 1)
    ELSE IF IsHtml(lines[i]) THEN
        <<[type |-> "html_block", map |-> <<i - 1, i>>, info |-> <<>>,
           content |-> lines[i] \o <<NL>>]>> \o TokenizeFrom(lines, i + 1)
    ELSE TokenizeFrom(lines, i + 1)

\* md.parse(md_text), the tokens the program reads
MdParse(md_text) == TokenizeFrom(splitlines(md_text), 1)

NoToken == [type |-> "None", map |-> <<0, 0>>, info |-> <<>>, content |-> <<>>]

(***************************************************************************)
(* parse_fence, parse_html_comment_block, extract_blocks                   *)
(***************************************************************************)

\* k.replace('-', '_') on the words of a key
ReplaceHyphen(k) ==
    [j \in 1..Len(k) |-> IF k[j] = "output-id" THEN "output_id" ELSE k[j]]

RECURSIVE SnakeFrom(_, _, _)
SnakeFrom(d, i, acc) ==
    IF i > Len(d) THEN acc
    ELSE SnakeFrom(d, i + 1, DictSet(acc, ReplaceHyphen(d[i][1]), d[i][2]))

\* {k.replace('-', '_'): v for k, v in vars_dict.items()}
SnakeDict(d) == SnakeFrom(d, 1, EmptyDict)

parse_fence(token) ==
    LET info_data == parse_info_string(token.info)
        snake == SnakeDict(info_data.vars)
    IN  [type |-> "code",
         token |-> token,
         end_token |-> NoToken,
         lang |-> info_data.lang,
         content |-> Strip(token.content, {NL}),
         id |-> DictGet(snake, <<"id">>),
         output_id |-> DictGet(snake, <<"output_id">>),
         executable |-> info_data.exec]

\* re.match(r'<!--\s+id:(\S+)(.*)\s+-->', content)
OpenMarkerMatch(content) ==
    /\ Len(content) >= 6
    /\ content[1] = "<!--" /\ content[2] = " " /\ content[3] = "id:"
    /\ content[4] \notin {" ", "-->"}
    /\ \E j \in 5..(Len(content) - 1) : content[j] = " " /\ content[j + 1] = "-->"

\* re.match(r'<!--\s+/id:(\S+)\s+-->', content)
CloseMarkerMatch(content) ==
    /\ Len(content) >= 6
    /\ content[1] = "<!--" /\ content[2] = " " /\ content[3] = "/id:"
    /\ content[4] \notin {" ", "-->"}
    /\ content[5] = " " /\ content[6] = "-->"

\* m.group(1)
MarkerId(content) == <<content[4]>>

\* content is md_text[start_line:end_line]: the line numbers index the text
\* itself (here its lexemes), not its lines
parse_html_comment_block(start_token, end_token, md_text) ==
    [type |-> "html",
     token |-> start_token,
     end_token |-> end_token,
     lang |-> <<>>,
     content |-> IF end_token # NoToken
                 THEN Slice(md_text, start_token.map[1] + 1, end_token.map[1])
                 ELSE <<>>,
     id |-> MarkerId(Strip(start_token.content, {" ", NL})),
     output_id |-> None,
     executable |-> FALSE]

\* html_id_start_tokens.pop(found_id, None): the dict without the key
DictPop(d, key) ==
    LET keep == {j \in 1..Len(d) : d[j][1] # key}
        RECURSIVE Pick(_)
        Pick(j) == IF j > Len(d) THEN <<>>
                   ELSE (IF j \in keep THEN <<d[j]>> ELSE <<>>) \o Pick(j + 1)
    IN  Pick(1)

RECURSIVE UnclosedBlocks(_, _, _)
\* the loop over the open markers left in html_id_start_tokens
UnclosedBlocks(d, i, md_text) ==
    IF i > Len(d) THEN <<>>
    ELSE <<parse_html_comment_block(d[i][2], NoToken, md_text)>>
         \o UnclosedBlocks(d, i + 1, md_text)

RECURSIVE ExtractFrom(_, _, _, _, _)
ExtractFrom(tokens, i, starts, out, md_text) ==
    IF i > Len(tokens)
    THEN [blocks |-> out \o UnclosedBlocks(starts, 1, md_text), raised |-> FALSE]
    ELSE
        LET token == tokens[i]
            content == Strip(token.content, {" ", NL})
        IN  IF token.type = "html_block" THEN
                IF OpenMarkerMatch(content)
                THEN ExtractFrom(tokens, i + 1,
                                 DictSet(starts, MarkerId(content), token), out, md_text)
                ELSE IF CloseMarkerMatch(content) THEN
                    IF MarkerId(content) \notin DictKeys(starts)
                    THEN [blocks |-> out, raised |-> TRUE]
                    ELSE ExtractFrom(tokens, i + 1, DictPop(starts, MarkerId(content)),
                            Append(out, parse_html_comment_block(
                                DictGet(starts, MarkerId(content)), token, md_text)),
                            md_text)
                ELSE ExtractFrom(tokens, i + 1, starts, out, md_text)
            ELSE ExtractFrom(tokens, i + 1, starts, Append(out, parse_fence(token)), md_text)

\* the generator extract_blocks(md_text): the blocks it yields, in the order
\* it yields them, and whether it then raises ValueError instead of ending
extract_blocks(md_text) == ExtractFrom(MdParse(md_text), 1, EmptyDict, <<>>, md_text)

(***************************************************************************)
(* replace_output_block and its helpers                                    *)
(***************************************************************************)

HasInk(line) == \E j \in 1..Len(line) : ~IsBlank(line[j])

RECURSIVE LeadingBlanks(_)
\* re.match(r'\s*', line).group(0)
LeadingBlanks(line) ==
    IF line # <<>> /\ IsBlank(line[1]) THEN <<line[1]>> \o LeadingBlanks(Tail(line))
    ELSE <<>>

detect_indent(t) ==
    LET ls == splitlines(t)
        inked == {j \in 1..Len(ls) : HasInk(ls[j])}
    IN  IF inked = {} THEN <<>>
        ELSE LeadingBlanks(ls[CHOOSE j \in inked : \A q \in inked : j <= q])

indent_text(t, indent) ==
    LET ls == splitlines(t)
    IN  Join([j \in 1..Len(ls) |-> IF HasInk(ls[j]) THEN indent \o ls[j] ELSE <<>>])

Returned(t) == [kind |-> "text", text |-> t, exc |-> "", updated |-> TRUE]
ReturnedPair(t, u) == [kind |-> "tuple", text |-> t, exc |-> "", updated |-> u]
Raised(e) == [kind |-> "raise", text |-> <<>>, exc |-> e, updated |-> FALSE]

\* the final line break is lost: splitlines drops it and join does not restore it
replace_html_block_content(block, md_text, new_output, match_indent) ==
    LET lines == splitlines(md_text)
        start_line == block.token.map[1]
        end_line == block.end_token.map[1]
        indented == IF match_indent
                    THEN indent_text(new_output, detect_indent(lines[start_line + 1]))
                    ELSE new_output
    IN  IF block.end_token = NoToken THEN Raised("AttributeError")
        ELSE Returned(Join(Slice(lines, 0, start_line + 1) \o splitlines(indented)
                           \o SliceFrom(lines, end_line)))

\* with match_indent the local new_output is read before it is bound
replace_fence_content(block, md_text, new_content, match_indent) ==
    LET code_start == block.token.map[1] + 1
        code_end == block.token.map[2] - 1
        lines == splitlines(md_text)
    IN  IF match_indent THEN Raised("UnboundLocalError")
        ELSE Returned(Join(Slice(lines, 0, code_start) \o splitlines(new_content)
                           \o SliceFrom(lines, code_end)))

\* the position in the yielded blocks of the first block with the id, 0 when none has it
FirstWithId(bs, block_id) ==
    IF \E j \in 1..Len(bs) : bs[j].id = block_id
    THEN CHOOSE j \in 1..Len(bs) :
            bs[j].id = block_id /\ \A q \in 1..(j - 1) : bs[q].id # block_id
    ELSE 0

\* the result of the call, the position of the block it stopped at, and what it printed
replace_output_block(md_text, block_id, new_content, match_indent) ==
    LET ex == extract_blocks(md_text)
        m == FirstWithId(ex.blocks, block_id)
    IN  IF m = 0 THEN [out |-> Raised("ValueError"), at |-> 0, printed |-> <<>>]
        ELSE LET block == ex.blocks[m]
             IN  [out |-> IF block.type = "code" /\ ~block.executable
                          THEN replace_fence_content(block, md_text, new_content, match_indent)
                          ELSE IF block.type = "html"
                          THEN replace_html_block_content(block, md_text, new_content, match_indent)
                          ELSE ReturnedPair(md_text, FALSE),
                  at |-> m,
                  printed |-> <<"Block">>]

(***************************************************************************)
(* Block, parse_blocks, render_blocks.  parse_blocks, render_blocks and    *)
(* break_block_full_content are called by run_mdexec and by the tests;     *)
(* they are modelled from the document-parser design: one pass over the    *)
(* tokens with a pending-text window, the markers matched as               *)
(* extract_blocks matches them.                                            *)
(***************************************************************************)

\* Block.full_content
full_content(block) == block.pre_content \o block.content \o block.post_content

\* lines[0] + '\n', '\n'.join(lines[1:-1]), '\n' + lines[-1]
break_block_full_content(lines) ==
    [pre |-> lines[1] \o <<NL>>,
     inner |-> Join(SubSeq(lines, 2, Len(lines) - 1)),
     post |-> <<NL>> \o lines[Len(lines)]]

TextBlock(content) ==
    [type |-> "text", pre_content |-> <<>>, content |-> content, post_content |-> <<>>,
     id |-> None, output_id |-> None, executable |-> FALSE, language |-> <<>>,
     map |-> <<0, 0>>]

CodeBlock(token, slices) ==
    LET b == parse_fence(token)
    IN  [type |-> "code", pre_content |-> slices.pre, content |-> slices.inner,
         post_content |-> slices.post, id |-> b.id, output_id |-> b.output_id,
         executable |-> b.executable, language |-> b.lang, map |-> token.map]

HtmlCommentBlock(start_token, slices) ==
    [type |-> "html", pre_content |-> slices.pre, content |-> slices.inner,
     post_content |-> slices.post,
     id |-> parse_html_comment_block(start_token, NoToken, <<>>).id,
     output_id |-> None, executable |-> FALSE, language |-> <<>>,
     map |-> start_token.map]

\* the pending text window lines[last:start], no block when it is empty
FlushText(lines, last, start) ==
    IF start > last THEN <<TextBlock(Join(Slice(lines, last, start)))>> ELSE <<>>

RECURSIVE UnclosedRegions(_, _, _, _)
\* an open marker never closed: its line, then the rest of the document
UnclosedRegions(d, i, lines, st) ==
    IF i > Len(d) THEN st
    ELSE LET s == d[i][2].map[1]
             block == HtmlCommentBlock(d[i][2],
                        [pre |-> lines[s + 1] \o <<NL>>,
                         inner |-> Join(SliceFrom(lines, s + 1)),
                         post |-> <<>>])
         IN  UnclosedRegions(d, i + 1, lines,
                [st EXCEPT !.blocks = @ \o FlushText(lines, st.last, s) \o <<block>>,
                           !.last = Len(lines),
                           !.printed = Append(@, "unclosed")])

RECURSIVE ParseFrom(_, _, _, _, _)
ParseFrom(tokens, i, lines, starts, st) ==
    IF i > Len(tokens) THEN
        LET fin == UnclosedRegions(starts, 1, lines, st)
        IN  [fin EXCEPT !.blocks = @ \o FlushText(lines, fin.last, Len(lines))]
    ELSE
        LET token == tokens[i]
            content == Strip(token.content, {" ", NL})
        IN  IF token.type = "html_block" THEN
                IF OpenMarkerMatch(content)
                THEN ParseFrom(tokens, i + 1, lines,
                               DictSet(starts, MarkerId(content), token), st)
                ELSE IF CloseMarkerMatch(content) THEN
                    IF MarkerId(content) \notin DictKeys(starts)
                    THEN [st EXCEPT !.raised = TRUE, !.blocks = <<>>]
                    ELSE LET start_token == DictGet(starts, MarkerId(content))
                             s == start_token.map[1]
                             e == token.map[2]
                         IN  ParseFrom(tokens, i + 1, lines,
                                DictPop(starts, MarkerId(content)),
                                [st EXCEPT
                                    !.blocks = @ \o FlushText(lines, st.last, s)
                                        \o <<HtmlCommentBlock(start_token,
                                                break_block_full_content(Slice(lines, s, e)))>>,
                                    !.last = e])
                ELSE ParseFrom(tokens, i + 1, lines, starts, st)
            ELSE LET s == token.map[1]
                     e == token.map[2]
                 IN  ParseFrom(tokens, i + 1, lines, starts,
                        [st EXCEPT
                            !.blocks = @ \o FlushText(lines, st.last, s)
                                \o <<CodeBlock(token,
                                        break_block_full_content(Slice(lines, s, e)))>>,
                            !.last = e])

\* the block list, whether the parse raised instead, and the diagnostics it printed
parse_blocks(t) ==
    ParseFrom(MdParse(t), 1, Split(t), EmptyDict,
              [blocks |-> <<>>, last |-> 0, raised |-> FALSE, printed |-> <<>>])

\* '\n'.join(block.full_content for block in blocks)
render_blocks(bs) == Join([j \in 1..Len(bs) |-> full_content(bs[j])])

(***************************************************************************)
(* The info-string specification: every info string over InfoAlphabet of   *)
(* at most MaxInfoLen lexemes, and the scenario of the documentation.      *)
(***************************************************************************)

MaxInfoLen == 7

InfoAlphabet == {"k", "exec", "=", "'", " "}

\* "python exec id=x a=1"
ExampleInfo == <<"python", " ", "exec", " ", "id", "=", "x", " ", "a", "=", "1">>

InfoInit ==
    /\ pc = "info"
    /\ info \in SeqsUpTo(InfoAlphabet, MaxInfoLen) \cup {ExampleInfo}
    /\ parsed = None
    /\ text = <<>>
    /\ args = None
    /\ res = None
    /\ log = <<>>
    /\ blocks = <<>> /\ idx = 0 /\ result = None /\ events = <<>>

CallParseInfoString ==
    /\ pc = "info"
    /\ parsed' = parse_info_string(info)
    /\ pc' = "info_done"
    /\ UNCHANGED <<info, text, args, res, log, runvars>>

InfoNext == CallParseInfoString

SpecInfo == InfoInit /\ [][InfoNext]_vars


(***************************************************************************)
(* The document specification: every document of at most MaxLines lines    *)
(* over DocLines, and one call of a document operation on it.              *)
(***************************************************************************)

MaxLines == 4

BlankLine == <<>>
TextLine == <<"t">>
FenceLine == <<"~~~">>
\* ~~~text id=a
OutputFenceLine == <<"~~~", "text", " ", "id", "=", "a">>
\* ~~~sh exec id=a
ExecFenceLine == <<"~~~", "sh", " ", "exec", " ", "id", "=", "a">>
\* <!-- id:a -->
OpenMarkerLine == <<"<!--", " ", "id:", "a", " ", "-->">>
\* <!-- /id:a -->
CloseMarkerLine == <<"<!--", " ", "/id:", "a", " ", "-->">>
\* <!-- id: -->
NoIdMarkerLine == <<"<!--", " ", "id:", " ", "-->">>

DocLines ==
    {BlankLine, TextLine, FenceLine, OutputFenceLine, ExecFenceLine,
     OpenMarkerLine, CloseMarkerLine, NoIdMarkerLine}

Documents == {Join(ls) : ls \in SeqsUpTo(DocLines, MaxLines)}

TargetIds == {<<"a">>, <<"zz">>}
NewContents == {<<>>, <<"n">>, <<"n", NL, "n">>}

DocInit ==
    /\ pc = "doc"
    /\ text \in Documents
    /\ info = <<>>
    /\ parsed = None
    /\ args = None
    /\ res = None
    /\ log = <<>>
    /\ blocks = <<>> /\ idx = 0 /\ result = None /\ events = <<>>

\* list(extract_blocks(text))
CallExtractBlocks ==
    /\ pc = "doc"
    /\ \E ex \in {extract_blocks(text)} :
           res' = IF ex.raised
                  THEN [kind |-> "raise", exc |-> "ValueError", blocks |-> <<>>]
                  ELSE [kind |-> "blocks", exc |-> "", blocks |-> ex.blocks]
    /\ pc' = "extracted"
    /\ UNCHANGED <<info, parsed, text, args, log, runvars>>

\* the text between the delimiter lines of the block a replacement by
\* block_id stops at, as the document holds it
TargetContents(t, block_id) ==
    LET bs == extract_blocks(t).blocks
        m == FirstWithId(bs, block_id)
        ls == splitlines(t)
    IN  IF m = 0 THEN {}
        ELSE IF bs[m].type = "code"
        THEN {Join(Slice(ls, bs[m].token.map[1] + 1, bs[m].token.map[2] - 1))}
        ELSE IF bs[m].end_token # NoToken
        THEN {Join(Slice(ls, bs[m].token.map[1] + 1, bs[m].end_token.map[1]))}
        ELSE {}

CallReplaceOutputBlock ==
    /\ pc = "doc"
    /\ \E block_id \in TargetIds, match_indent \in BOOLEAN :
       \E new_content \in NewContents \cup TargetContents(text, block_id) :
       \E r \in {replace_output_block(text, block_id, new_content, match_indent)} :
            /\ args' = [block_id |-> block_id, new_content |-> new_content,
                        match_indent |-> match_indent]
            /\ res' = [kind |-> r.out.kind, text |-> r.out.text, exc |-> r.out.exc,
                       updated |-> r.out.updated, at |-> r.at]
            /\ log' = log \o r.printed
    /\ pc' = "replaced"
    /\ UNCHANGED <<info, parsed, text, runvars>>

CallParseBlocks ==
    /\ pc = "doc"
    /\ \E r \in {parse_blocks(text)} :
           /\ res' = [kind |-> IF r.raised THEN "raise" ELSE "blocks",
                      blocks |-> r.blocks, rendered |-> <<>>]
           /\ log' = log \o r.printed
    /\ pc' = "parsed"
    /\ UNCHANGED <<info, parsed, text, args, runvars>>

CallRenderBlocks ==
    /\ pc = "parsed"
    /\ res.kind = "blocks"
    /\ res' = [res EXCEPT !.rendered = render_blocks(res.blocks)]
    /\ pc' = "rendered"
    /\ UNCHANGED <<info, parsed, text, args, log, runvars>>

\* the same replacement once more, on the text the first one returned
CallReplaceAgain ==
    /\ pc = "replaced"
    /\ res.kind = "text"
    /\ \E md_text \in {res.text}, block_id \in {args.block_id},
          new_content \in {args.new_content}, match_indent \in {args.match_indent} :
       \E r \in {replace_output_block(md_text, block_id, new_content, match_indent)} :
            /\ res' = [kind |-> r.out.kind, text |-> r.out.text, exc |-> r.out.exc,
                       updated |-> r.out.updated, at |-> r.at]
            /\ log' = log \o r.printed
            /\ parsed' = md_text
    /\ pc' = "replaced_again"
    /\ UNCHANGED <<info, text, args, runvars>>

Next ==
    \/ CallExtractBlocks
    \/ CallReplaceOutputBlock
    \/ CallParseBlocks
    \/ CallRenderBlocks

Spec == DocInit /\ [][Next]_vars

(***************************************************************************)
(* The indentation specification: documents with indented lines, one       *)
(* replacement by id and the same replacement again on its result.         *)
(***************************************************************************)

\* an indented line of text
IndentedLine == <<" ", "t">>

IndentLines ==
    {BlankLine, TextLine, IndentedLine, FenceLine, OutputFenceLine,
     OpenMarkerLine, CloseMarkerLine}

IndentInit ==
    /\ pc = "doc"
    /\ text \in {Join(ls) : ls \in SeqsUpTo(IndentLines, MaxLines)}
    /\ info = <<>>
    /\ parsed = None
    /\ args = None
    /\ res = None
    /\ log = <<>>
    /\ blocks = <<>> /\ idx = 0 /\ result = None /\ events = <<>>

IndentNext ==
    \/ CallReplaceOutputBlock
    \/ CallReplaceAgain

SpecIndent == IndentInit /\ [][IndentNext]_vars

(***************************************************************************)
(* execute_code_block and run_mdexec                                       *)
(***************************************************************************)

\* what the shell backend can do with the code: print something, print
\* nothing, or fail to start (caught in _exec_subprocess)
BackendOutcomes ==
    {[started |-> TRUE, output |-> <<"out">>],
     [started |-> TRUE, output |-> <<>>],
     [started |-> FALSE, output |-> <<>>]}

exec_subprocess(code, backend) ==
    IF backend.started THEN Strip(backend.output, {" ", NL})
    ELSE <<"Subprocess", " ", "error:">>

\* run_mdexec passes no doc_context: building the environment of a Python
\* block reads doc_context.get_blocks of None
execute_code_block(block, doc_context, backend) ==
    LET lang == block.language
    IN  IF ~block.executable THEN [kind |-> "raise", text |-> <<"ValueError">>]
        ELSE IF lang \in {<<"python">>, <<"py">>}
        THEN IF doc_context = None
             THEN [kind |-> "raise", text |-> <<"AttributeError">>]
             ELSE [kind |-> "return", text |-> <<>>]
        ELSE IF lang \in {<<"bash">>, <<"sh">>}
        THEN [kind |-> "return", text |-> exec_subprocess(block.content, backend)]
        ELSE [kind |-> "return", text |-> <<"Unsupported", " ", "language">>]

Truthy(v) == v # None /\ v # <<>>

\* the first block b with b.id is not None and b.id.replace('-', '_') ==
\* output_id.replace('-', '_'), 0 for None
OutputBlock(bs, output_id) ==
    LET hit(j) == bs[j].id # None /\ ReplaceHyphen(bs[j].id) = ReplaceHyphen(output_id)
    IN  IF \E j \in 1..Len(bs) : hit(j)
        THEN CHOOSE j \in 1..Len(bs) : hit(j) /\ \A q \in 1..(j - 1) : ~hit(q)
        ELSE 0

\* blocks = parse_blocks(text)
RunParse ==
    /\ pc = "run"
    /\ \E r \in {parse_blocks(text)} :
           /\ blocks' = r.blocks
           /\ log' = log \o r.printed
           /\ pc' = IF r.raised THEN "parse_raised" ELSE "loop"
    /\ idx' = 1
    /\ events' = Append(events, <<"parse", 0, 0>>)
    /\ UNCHANGED <<info, parsed, text, args, res, result>>

\* the loop passes a block that is no executable code block
RunSkip ==
    /\ pc = "loop"
    /\ idx <= Len(blocks)
    /\ ~(blocks[idx].type = "code" /\ blocks[idx].executable)
    /\ idx' = idx + 1
    /\ UNCHANGED <<pc, info, parsed, text, args, res, log, blocks, result, events>>

\* the try statement: the block is executed, an exception becomes the result
RunExecute ==
    /\ pc = "loop"
    /\ idx <= Len(blocks)
    /\ blocks[idx].type = "code" /\ blocks[idx].executable
    /\ \E backend \in BackendOutcomes :
       \E r \in {execute_code_block(blocks[idx], None, backend)} :
            result' = [dispatch |-> r.kind,
                       text |-> IF r.kind = "return" THEN r.text
                                ELSE <<"Error:", " ">> \o r.text]
    /\ log' = log \o (IF blocks[idx].output_id = None THEN <<"warn">> ELSE <<>>) \o <<"info">>
    /\ events' = Append(events, <<"exec", idx, 0>>)
    /\ pc' = "write"
    /\ UNCHANGED <<info, parsed, text, args, res, blocks, idx>>

\* the result goes to the output block, or to the console
RunWrite ==
    /\ pc = "write"
    /\ LET output_id == blocks[idx].output_id
           target == OutputBlock(blocks, output_id)
       IN  IF Truthy(output_id) THEN
               IF target = 0
               THEN /\ pc' = "run_raised"
                    /\ UNCHANGED <<blocks, idx, events, log>>
               ELSE /\ blocks' = [blocks EXCEPT ![target].content = result.text]
                    /\ events' = Append(events, <<"write", idx, target>>)
                    /\ idx' = idx + 1
                    /\ pc' = "loop"
                    /\ UNCHANGED log
           ELSE /\ log' = Append(log, "result")
                /\ idx' = idx + 1
                /\ pc' = "loop"
                /\ UNCHANGED <<blocks, events>>
    /\ UNCHANGED <<info, parsed, text, args, res, result>>

\* return render_blocks(blocks)
RunRender ==
    /\ pc = "loop"
    /\ idx > Len(blocks)
    /\ res' = render_blocks(blocks)
    /\ pc' = "run_done"
    /\ UNCHANGED <<info, parsed, text, args, log, runvars>>

\* ~~~sh exec output-id=a
RunShLine == <<"~~~", "sh", " ", "exec", " ", "output-id", "=", "a">>
\* ~~~python exec output-id=a
RunPyLine == <<"~~~", "python", " ", "exec", " ", "output-id", "=", "a">>
\* ~~~lua exec
RunLuaLine == <<"~~~", "lua", " ", "exec">>
\* ~~~sh exec output-id=zz, an output id no block of these documents carries
RunMissLine == <<"~~~", "sh", " ", "exec", " ", "output-id", "=", "zz">>

RunLines ==
    {TextLine, FenceLine, RunShLine, RunPyLine, RunLuaLine, RunMissLine, ExecFenceLine,
     OpenMarkerLine, CloseMarkerLine}

RunInit ==
    /\ pc = "run"
    /\ text \in {Join(ls) : ls \in SeqsUpTo(RunLines, MaxLines)}
    /\ info = <<>>
    /\ parsed = None
    /\ args = None
    /\ res = None
    /\ log = <<>>
    /\ blocks = <<>> /\ idx = 0 /\ result = None /\ events = <<>>

RunNext ==
    \/ RunParse
    \/ RunSkip
    \/ RunExecute
    \/ RunWrite
    \/ RunRender

SpecRun == RunInit /\ [][RunNext]_vars

(***************************************************************************)
(* What the claims speak of, stated on the tokens of the document and not  *)
(* by the parsers.                                                         *)
(***************************************************************************)

TokenText(t) == Strip(t.content, {" ", NL})
IsOpenToken(t) == t.type = "html_block" /\ OpenMarkerMatch(TokenText(t))
IsCloseToken(t) == t.type = "html_block" /\ CloseMarkerMatch(TokenText(t))

\* an HTML comment that starts as an id marker and carries no id
IsNoIdToken(t) ==
    /\ t.type = "html_block"
    /\ Len(TokenText(t)) >= 3
    /\ TokenText(t)[3] \in {"id:", "/id:"}
    /\ ~OpenMarkerMatch(TokenText(t)) /\ ~CloseMarkerMatch(TokenText(t))

\* token j is a close marker with no open marker of its id pending
UnmatchedClose(ts, j) ==
    /\ IsCloseToken(ts[j])
    /\ ~\E i \in 1..(j - 1) :
            /\ IsOpenToken(ts[i])
            /\ MarkerId(TokenText(ts[i])) = MarkerId(TokenText(ts[j]))
            /\ ~\E k \in (i + 1)..(j - 1) :
                    /\ IsCloseToken(ts[k])
                    /\ MarkerId(TokenText(ts[k])) = MarkerId(TokenText(ts[j]))

HasUnmatchedClose(t) == \E j \in 1..Len(MdParse(t)) : UnmatchedClose(MdParse(t), j)

\* token i is an open marker that no later close marker of its id follows
UnclosedOpen(ts, i) ==
    /\ IsOpenToken(ts[i])
    /\ ~\E k \in (i + 1)..Len(ts) :
            /\ IsCloseToken(ts[k])
            /\ MarkerId(TokenText(ts[k])) = MarkerId(TokenText(ts[i]))

\* every fence is closed, every marker is an open marker directly followed
\* (as a token) by its close marker, so no region lies inside another
WellFormed(t) ==
    LET ts == MdParse(t)
        ls == splitlines(t)
    IN  /\ \A j \in 1..Len(ts) :
            ts[j].type = "fence" =>
                /\ ts[j].map[2] >= ts[j].map[1] + 2
                /\ IsFenceClose(ls[ts[j].map[2]])
        /\ \A j \in 1..Len(ts) :
            ts[j].type = "html_block" => IsOpenToken(ts[j]) \/ IsCloseToken(ts[j])
        /\ \A j \in 1..Len(ts) :
            IsOpenToken(ts[j]) =>
                /\ j < Len(ts)
                /\ IsCloseToken(ts[j + 1])
                /\ MarkerId(TokenText(ts[j + 1])) = MarkerId(TokenText(ts[j]))
        /\ \A j \in 1..Len(ts) :
            IsCloseToken(ts[j]) => j > 1 /\ IsOpenToken(ts[j - 1])

IsPrefix(p, t) == Len(p) <= Len(t) /\ SubSeq(t, 1, Len(p)) = p
IsSuffix(p, t) == Len(p) <= Len(t) /\ SubSeq(t, Len(t) - Len(p) + 1, Len(t)) = p

(***************************************************************************)
(* C1.  Round-trip identity: for every well-formed document with balanced  *)
(* markers, rendering the parsed, unmodified blocks gives the text back    *)
(* exactly.                                                                *)
(***************************************************************************)
C1_RoundTrip ==
    (pc = "rendered" /\ WellFormed(text)) => res.rendered = text

(***************************************************************************)
(* C2.  Single-block mutation isolation: the text a replacement returns    *)
(* differs from the input only inside the matched block's content span;    *)
(* the lines up to and including the opening line, and the closing line    *)
(* and everything after it (the final line break too), are unchanged.      *)
(***************************************************************************)
C2_MutationIsolation ==
    (pc = "replaced" /\ res.kind = "text" /\ WellFormed(text)) =>
        LET block == extract_blocks(text).blocks[res.at]
            ls == Split(text)
            open == block.token.map[1]
            close == IF block.type = "code" THEN block.token.map[2] - 1
                     ELSE block.end_token.map[1]
            before == Join(Slice(ls, 0, open + 1)) \o <<NL>>
            after == Join(SliceFrom(ls, close))
        IN  /\ IsPrefix(before, res.text)
            /\ IsSuffix(after, res.text)
            /\ Len(before) + Len(after) <= Len(res.text)

(***************************************************************************)
(* C3.  Target selection: the block a replacement overwrites is the first  *)
(* block in source order that is a Comment block or a non-executable Code  *)
(* block with the target id; never an executable code block, never a later *)
(* block.  Here for the output-id lookup of the run loop.                  *)
(***************************************************************************)
IsSink(b, id) == b.type \in {"html", "code"} /\ ~b.executable /\ b.id = id

C3_TargetSelection ==
    \A k \in 1..Len(events) :
        events[k][1] = "write" =>
            LET source == events[k][2]
                target == events[k][3]
                id == blocks[source].output_id
            IN  /\ IsSink(blocks[target], id)
                /\ \A q \in 1..(target - 1) : ~IsSink(blocks[q], id)

(***************************************************************************)
(* C4.  Target not found: when no Comment block and no non-executable Code *)
(* block has the target id (also when only an executable code block has    *)
(* it), the replacement raises and returns nothing.                        *)
(***************************************************************************)
C4_TargetNotFound ==
    (/\ pc = "replaced"
     /\ ~\E j \in 1..Len(extract_blocks(text).blocks) :
            LET b == extract_blocks(text).blocks[j]
            IN  b.id = args.block_id /\ (b.type = "html" \/ ~b.executable))
    => res.kind = "raise"

(***************************************************************************)
(* C5.  Unmatched close marker rejection is all-or-nothing: when a close   *)
(* marker occurs with no open marker of its id pending, block extraction   *)
(* and replacement by id raise, wherever the close marker is; no blocks    *)
(* and no rewritten text are returned.                                     *)
(***************************************************************************)
C5_UnmatchedCloseRejected ==
    (pc \in {"extracted", "replaced"} /\ HasUnmatchedClose(text)) => res.kind = "raise"

(***************************************************************************)
(* C6.  Unclosed marker tolerance: parsing a document with an open marker  *)
(* that is never closed does not raise and reports exactly one diagnostic  *)
(* for that marker.                                                        *)
(***************************************************************************)
OneUnclosedOpen(t) ==
    /\ Cardinality({i \in 1..Len(MdParse(t)) : UnclosedOpen(MdParse(t), i)}) = 1
    /\ ~HasUnmatchedClose(t)

C6_UnclosedMarkerTolerance ==
    (pc = "extracted" /\ OneUnclosedOpen(text)) => (res.kind = "blocks" /\ Len(log) = 1)

(***************************************************************************)
(* C7.  Malformed marker is a hard error: an HTML comment that looks like  *)
(* an id marker and carries no id makes the parse of the whole document    *)
(* fail; it is never skipped.                                              *)
(***************************************************************************)
C7_MalformedMarkerRejected ==
    (pc = "extracted" /\ \E j \in 1..Len(MdParse(text)) : IsNoIdToken(MdParse(text)[j]))
    => res.kind = "raise"

(***************************************************************************)
(* C9.  The execution dispatcher never raises: for every code block the    *)
(* run loop hands to execute_code_block the call returns a text.           *)
(***************************************************************************)
C9_DispatcherNeverRaises ==
    pc = "write" => result.dispatch = "return"

(***************************************************************************)
(* C10.  Sequential run order: in one run the document is parsed once,     *)
(* every executable code block is executed exactly once, in source order,  *)
(* and the result of a block is written before the next block is executed. *)
(***************************************************************************)
Executions == {k \in 1..Len(events) : events[k][1] = "exec"}

C10_SequentialRunOrder ==
    pc \in {"run_done", "run_raised"} =>
        /\ Cardinality({k \in 1..Len(events) : events[k][1] = "parse"}) = 1
        /\ events[1][1] = "parse"
        /\ \A j \in 1..Len(blocks) :
            (blocks[j].type = "code" /\ blocks[j].executable) =>
                Cardinality({k \in Executions : events[k][2] = j}) = 1
        /\ \A k1, k2 \in Executions : k1 < k2 => events[k1][2] < events[k2][2]
        /\ \A k \in 1..Len(events) :
            events[k][1] = "write" => (k > 1 /\ events[k - 1] = <<"exec", events[k][2], 0>>)

(***************************************************************************)
(* C11.  Replacement errors are scoped to one block: when the output-id of *)
(* one executable block names no existing block, the run is not aborted;   *)
(* every executable block is still executed, and the result of every block *)
(* whose output-id names an existing block is written to that block.       *)
(***************************************************************************)
IsExecutable(b) == b.type = "code" /\ b.executable

\* block j is executable and its output-id names no block
MissingTarget(bs, j) ==
    /\ IsExecutable(bs[j])
    /\ Truthy(bs[j].output_id)
    /\ OutputBlock(bs, bs[j].output_id) = 0

C11_ReplacementErrorScoped ==
    (/\ pc \in {"run_done", "run_raised"}
     /\ \E j \in 1..Len(blocks) : MissingTarget(blocks, j))
    => /\ pc = "run_done"
       /\ \A j \in 1..Len(blocks) :
            IsExecutable(blocks[j]) =>
                /\ \E k \in Executions : events[k][2] = j
                /\ (Truthy(blocks[j].output_id) /\ ~MissingTarget(blocks, j)) =>
                        \E k \in 1..Len(events) :
                            events[k] = <<"write", j, OutputBlock(blocks, blocks[j].output_id)>>

(***************************************************************************)
(* C12.  Indentation round-trip: replacing the content of an addressable   *)
(* block (a fence or a marker pair with the id), with match_indent, by the *)
(* content the document holds for it returns the document unchanged, also  *)
(* when the content is indented; the same replacement applied to the       *)
(* result returns the result.                                              *)
(***************************************************************************)
C12_IndentRoundTrip ==
    /\ (/\ pc = "replaced"
        /\ args.match_indent
        /\ WellFormed(text)
        /\ args.new_content \in TargetContents(text, args.block_id))
       => (res.kind = "text" /\ res.text = text)
    /\ (pc = "replaced_again" /\ args.match_indent)
       => (res.kind = "text" /\ res.text = parsed)

(***************************************************************************)
(* C13.  Per-block reconstruction: for every fence and every marker pair   *)
(* of a parsed document, pre_content + content + post_content is exactly   *)
(* the block's source lines joined by the line separator, for any number   *)
(* of inner lines, zero too; pre_content is the first line with its line   *)
(* break, post_content the last line with the line break before it.        *)
(***************************************************************************)

\* the source lines of block b of a well-formed document
SourceLines(t, b) ==
    LET ts == MdParse(t)
        j == CHOOSE q \in 1..Len(ts) : ts[q].map = b.map
        last == IF b.type = "code" THEN b.map[2] ELSE ts[j + 1].map[2]
    IN  Slice(Split(t), b.map[1], last)

C13_BlockReconstruction ==
    (pc = "parsed" /\ res.kind = "blocks" /\ WellFormed(text)) =>
        \A j \in 1..Len(res.blocks) :
            res.blocks[j].type \in {"code", "html"} =>
                LET b == res.blocks[j]
                    src == SourceLines(text, b)
                IN  /\ full_content(b) = Join(src)
                    /\ b.pre_content = src[1] \o <<NL>>
                    /\ b.post_content = <<NL>> \o src[Len(src)]

(***************************************************************************)
(* C14.  Shape and order of the parsed block list: one block per fence and *)
(* per marker region, in the order in which the blocks start in the source *)
(* (wherever they close); a TextBlock exactly for each non-empty gap       *)
(* before, between and after them and none for an empty gap; two directly  *)
(* adjacent fences give exactly two blocks.                                *)
(***************************************************************************)

\* every open marker is closed by the next marker of its id, every close
\* marker closes one
Balanced(t) ==
    LET ts == MdParse(t)
        SameId(i, k) == MarkerId(TokenText(ts[i])) = MarkerId(TokenText(ts[k]))
    IN  /\ ~HasUnmatchedClose(t)
        /\ \A i \in 1..Len(ts) :
            IsOpenToken(ts[i]) =>
                \E k \in (i + 1)..Len(ts) :
                    /\ IsCloseToken(ts[k]) /\ SameId(i, k)
                    /\ \A q \in (i + 1)..(k - 1) :
                        ~(IsOpenToken(ts[q]) /\ SameId(i, q))

\* the line a block of either parser starts at, -1 for a TextBlock
StartLine(b) ==
    IF b.type = "text" THEN 0 - 1
    ELSE IF "token" \in DOMAIN b THEN b.token.map[1] ELSE b.map[1]

\* the blocks of a list that are no TextBlock, in the order of the list
Structural(bs) == SelectSeq(bs, LAMBDA b : b.type # "text")

RECURSIVE ShapeFrom(_, _, _, _)
\* the shape the claim gives a well-formed document: for each token that
\* starts a block the gap before it, when it has lines, then the block
ShapeFrom(ts, i, ls, last) ==
    IF i > Len(ts)
    THEN IF Len(ls) > last THEN <<<<"text", Join(SliceFrom(ls, last))>>>> ELSE <<>>
    ELSE IF IsCloseToken(ts[i]) THEN ShapeFrom(ts, i + 1, ls, last)
    ELSE LET s == ts[i].map[1]
             e == IF ts[i].type = "fence" THEN ts[i].map[2] ELSE ts[i + 1].map[2]
             gap == IF s > last THEN <<<<"text", Join(Slice(ls, last, s))>>>> ELSE <<>>
         IN  gap \o <<<<IF ts[i].type = "fence" THEN "code" ELSE "html", s>>>>
                 \o ShapeFrom(ts, i + 1, ls, e)

\* the shape of a parsed block list
ShapeOf(bs) ==
    [j \in 1..Len(bs) |->
        IF bs[j].type = "text" THEN <<"text", bs[j].content>>
        ELSE <<bs[j].type, bs[j].map[1]>>]

C14_BlockListShape ==
    /\ (pc \in {"extracted", "parsed"} /\ res.kind = "blocks" /\ Balanced(text)) =>
        LET ts == MdParse(text)
            st == Structural(res.blocks)
        IN  /\ Len(st) = Cardinality({j \in 1..Len(ts) :
                                        ts[j].type = "fence" \/ IsCloseToken(ts[j])})
            /\ \A j \in 1..(Len(st) - 1) : StartLine(st[j]) < StartLine(st[j + 1])
    /\ (pc = "parsed" /\ res.kind = "blocks" /\ WellFormed(text)) =>
        ShapeOf(res.blocks) = ShapeFrom(MdParse(text), 1, Split(text), 0)

(***************************************************************************)
(* C15.  No open marker is silently dropped: after a parse that does not   *)
(* raise, every open marker that no close marker consumed (also when       *)
(* several open markers carry the same id) has exactly one Comment block,  *)
(* whose pre_content is the open-marker line, whose content is the rest of *)
(* the document after that line and whose post_content is empty.           *)
(***************************************************************************)

\* the document after line s (counted from 0)
Remainder(t, s) == Join(SliceFrom(Split(t), s + 1))

C15_NoOpenMarkerDropped ==
    (pc \in {"extracted", "parsed"} /\ res.kind = "blocks" /\ ~HasUnmatchedClose(text)) =>
        LET ts == MdParse(text)
            ls == Split(text)
            Of(i) == {j \in 1..Len(res.blocks) :
                        /\ res.blocks[j].type = "html"
                        /\ StartLine(res.blocks[j]) = ts[i].map[1]}
        IN  \A i \in 1..Len(ts) :
                UnclosedOpen(ts, i) =>
                    /\ Cardinality(Of(i)) = 1
                    /\ \A j \in Of(i) :
                        /\ res.blocks[j].content = Remainder(text, ts[i].map[1])
                        /\ pc = "parsed" =>
                            /\ res.blocks[j].pre_content
                                  \in {ls[ts[i].map[1] + 1], ls[ts[i].map[1] + 1] \o <<NL>>}
                            /\ res.blocks[j].post_content = <<>>

(***************************************************************************)
(* C16.  Closing-marker synthesis: a replacement whose target is a Comment *)
(* block with no close marker does not fail; it returns a text in which    *)
(* the region with that id is closed and holds new_content.                *)
(***************************************************************************)

\* the block a replacement by block_id stops at is an unclosed Comment block
UnclosedTarget(t, block_id) ==
    LET bs == extract_blocks(t).blocks
        m == FirstWithId(bs, block_id)
    IN  m # 0 /\ bs[m].type = "html" /\ bs[m].end_token = NoToken

C16_ClosingMarkerSynthesis ==
    (pc = "replaced" /\ UnclosedTarget(text, args.block_id)) =>
        /\ res.kind = "text"
        /\ LET bs == extract_blocks(res.text).blocks
               m == FirstWithId(bs, args.block_id)
           IN  /\ m # 0 /\ bs[m].type = "html" /\ bs[m].end_token # NoToken
               /\ ~args.match_indent =>
                    args.new_content \in TargetContents(res.text, args.block_id)

(***************************************************************************)
(* C8.  parse_info_string never fails; the language is the first token     *)
(* (empty for an empty info string); executable holds exactly when a later *)
(* token is the bare marker exec, which is never an option; every other    *)
(* later token is an option, key=value split at the first "=" with the     *)
(* quotes around the value stripped, a bare token mapped to the empty      *)
(* string; of a repeated key the last occurrence wins.                     *)
(***************************************************************************)

\* token tok stands for option k with value v
IsOption(tok, k, v) ==
    IF \E p \in 1..Len(tok) : tok[p] = "="
    THEN \E p \in 1..Len(tok) :
            /\ tok[p] = "="
            /\ \A q \in 1..(p - 1) : tok[q] # "="
            /\ k = SubSeq(tok, 1, p - 1)
            /\ \E a, b \in 0..Len(tok) :
                /\ p + a + b <= Len(tok)
                /\ \A q \in (p + 1)..(p + a) : tok[q] \in Quotes
                /\ \A q \in (Len(tok) - b + 1)..Len(tok) : tok[q] \in Quotes
                /\ v = SubSeq(tok, p + a + 1, Len(tok) - b)
                /\ v # <<>> => (v[1] \notin Quotes /\ v[Len(v)] \notin Quotes)
    ELSE k = tok /\ v = <<>>

\* the later tokens that are not the execution marker
OptionTokens(parts) == {i \in 2..Len(parts) : parts[i] # <<"exec">>}

\* "python exec id=x a=1" gives python, executable, {id: x, a: 1}
ExampleParsed ==
    [raised |-> FALSE, lang |-> <<"python">>, exec |-> TRUE,
     vars |-> << <<<<"id">>, <<"x">>>>, <<<<"a">>, <<"1">>>> >>]

C8_ParseInfoString ==
    pc = "info_done" =>
        LET parts == InfoParts(info)
            opts  == OptionTokens(parts)
            d     == parsed.vars
        IN  /\ ~parsed.raised
            /\ parsed.lang = (IF parts = <<>> THEN <<>> ELSE parts[1])
            /\ parsed.exec <=> \E i \in 2..Len(parts) : parts[i] = <<"exec">>
            /\ \A i, j \in 1..Len(d) : d[i][1] = d[j][1] => i = j
            /\ \A j \in 1..Len(d) : \E i \in opts : \E v \in {d[j][2]} :
                    IsOption(parts[i], d[j][1], v)
            /\ \A i \in opts : \E j \in 1..Len(d) :
                    /\ \E v \in {<<>>} \cup {SubSeq(parts[i], a, b) : a, b \in 1..Len(parts[i])} :
                            IsOption(parts[i], d[j][1], v)
                    /\ (\A i2 \in opts : i2 > i =>
                            ~\E v \in {<<>>} \cup {SubSeq(parts[i2], a, b) : a, b \in 1..Len(parts[i2])} :
                                IsOption(parts[i2], d[j][1], v))
                       => IsOption(parts[i], d[j][1], d[j][2])
            /\ info = ExampleInfo => parsed = ExampleParsed

\* a key given twice with different values has been parsed
C8_Witness ==
    /\ pc = "info_done"
    /\ LET parts == InfoParts(info)
       IN  \E i, j \in OptionTokens(parts) :
            /\ i < j
            /\ \E k \in DictKeys(parsed.vars) :
                /\ \E v \in {<<>>} \cup {SubSeq(parts[i], a, b) : a, b \in 1..Len(parts[i])} :
                        IsOption(parts[i], k, v) /\ v # DictGet(parsed.vars, k)
                /\ IsOption(parts[j], k, DictGet(parsed.vars, k))

=============================================================================
